---- MODULE Spec2Model ----
(***************************************************************************)
(* The three tutorial applications of pyside-opengl-tutorials:             *)
(*   02-rectangle  RectangleGL   (one indexed draw per frame)              *)
(*   05-cube       CubeGL        (ten cubes per frame)                     *)
(*   06-events     EventAppWindow + the events GL widget (sliders and      *)
(*                 buttons drive the camera and the cubes' rotation)       *)
(* One run of the model is one run of one application (variable app).      *)
(* Floating point values are kept in tenths (0.5 is 5, -2.2 is -22).       *)
(***************************************************************************)
EXTENDS Integers, Sequences, FiniteSets, TLC

VARIABLES
    app,            \* which app.py is running
    \* ---- EventAppWindow (the Qt widgets it owns and its own fields)
    camX, camY,                 \* camera slider values
    xSlider, ySlider, zSlider,  \* rotation slider values
    lastCamXVal, lastCamYVal,   \* EventAppWindow fields
    \* ---- GL widget
    camera,         \* [yaw, pitch, position, zoom]
    rotateVector,   \* rotation axis of the cubes (events widget)
    size,           \* the widget's [width, height]
    cubeVertices,   \* flat array: 5 floats per vertex
    cubeCoords,     \* list of cube positions
    indices,        \* RectangleGL element indices
    vertexData,     \* RectangleGL flat array: 3 floats per vertex
    gl,             \* the widget's GL side, a record:
                    \*   vbo        the floats held by the vertex buffer
                    \*   uniforms   the program's uniform values
                    \*   frame      the GL calls of the latest paintGL
                    \*   initCalls  how many times initializeGL has run
                    \*   initLog    the calls CubeGL.initializeGL has made
    updatePending,  \* a repaint has been requested and not yet served
    backlog,        \* UI events handled since the last paintGL
    \* ---- history, for stating the properties
    initCamX, initCamY,   \* slider values at construction
    sizeAtInit,           \* the widget's size when initializeGL ran
    sumX, sumY,           \* sums of the offsets passed to turnAround
    lastEvent,            \* the signal / callback handled last
    calls                 \* calls into the GL widget made by that handler

window   == <<camX, camY, xSlider, ySlider, zSlider, lastCamXVal, lastCamYVal>>
geometry == <<cubeVertices, cubeCoords, indices, vertexData>>
loop     == <<gl, updatePending, backlog>>
history  == <<initCamX, initCamY, sizeAtInit, sumX, sumY, lastEvent, calls>>
vars     == <<app, window, camera, rotateVector, size, geometry, loop, history>>

(***************************************************************************)
(* Bounds of the model.                                                    *)
(***************************************************************************)
\* the camera is followed up to this many net steps away from its start
MaxMove == 1
\* UI events the event loop handles before it serves a pending repaint
MaxBacklog == 1

\* values the user drags a camera slider to (some lie outside the range)
CamRequests == {-200, 0, 90, 200}
\* values the user drags a rotation slider to
RotRequests == {0, 90}

(***************************************************************************)
(* Program constants.                                                      *)
(***************************************************************************)
SliderMin == -180
SliderMax == 180
floatSize == 4
\* floats per cube vertex (3 position, 2 texture), glVertexAttribPointer stride
VertexFloats == 5
\* the widget's size in pixels when the window is shown
WidgetSize == [width |-> 4, height |-> 3]
\* the sizes the user drags the window to
WidgetSizes == {WidgetSize, [width |-> 8, height |-> 3]}

Abs(n) == IF n < 0 THEN -n ELSE n

\* faulty variant: a slider that lets any value through
Bound_unbounded(v) == v

\* QAbstractSlider keeps its value inside the range given to setRange
Bound(v) == IF v < SliderMin THEN SliderMin
            ELSE IF v > SliderMax THEN SliderMax ELSE v

(***************************************************************************)
(* Geometry set up by the constructors.                                    *)
(***************************************************************************)
CubeGL_cubeVertices == <<
     -5,  -5,  -5,   0,   0,
      5,  -5,  -5,  10,   0,
      5,   5,  -5,  10,  10,
      5,   5,  -5,  10,  10,
     -5,   5,  -5,   0,  10,
     -5,  -5,  -5,   0,   0,

     -5,  -5,   5,   0,   0,
      5,  -5,   5,  10,   0,
      5,   5,   5,  10,  10,
      5,   5,   5,  10,  10,
     -5,   5,   5,   0,  10,
     -5,  -5,   5,   0,   0,

     -5,   5,   5,  10,   0,
     -5,   5,  -5,  10,  10,
     -5,  -5,  -5,   0,  10,
     -5,  -5,  -5,   0,  10,
     -5,  -5,   5,   0,   0,
     -5,   5,   5,  10,   0,

      5,   5,   5,  10,   0,
      5,   5,  -5,  10,  10,
      5,  -5,  -5,   0,  10,
      5,  -5,  -5,   0,  10,
      5,  -5,   5,   0,   0,
      5,   5,   5,  10,   0,

     -5,  -5,  -5,   0,  10,
      5,  -5,  -5,  10,  10,
      5,  -5,   5,  10,   0,
      5,  -5,   5,  10,   0,
     -5,  -5,   5,   0,   0,
     -5,  -5,  -5,   0,  10,

     -5,   5,  -5,   0,  10,
      5,   5,  -5,  10,  10,
      5,   5,   5,  10,   0,
      5,   5,   5,  10,   0,
     -5,   5,   5,   0,   0,
     -5,   5,  -5,   0,  10 >>

CubeGL_cubeCoords == <<
    <<0, 0, 0>>,
    <<20, 50, -150>>,
    <<-15, -22, -25>>,
    <<-38, -20, -123>>,
    <<24, -4, -35>>,
    <<-17, 30, -75>>,
    <<13, -20, -25>>,
    <<15, 20, -25>>,
    <<15, 2, -15>>,
    <<-13, 10, -15>> >>

RectangleGL_indices == <<
    0, 1, 3,      \* first triangle
    1, 2, 3 >>    \* second triangle

RectangleGL_vertexData == <<
     5,  5, 0,    \* top right
     5, -5, 0,    \* bottom right
    -5, -5, 0,    \* bottom left
    -5,  5, 0 >>  \* top left

\* rotvec of CubeGL.paintGL
CubeGL_rotvec == <<7, 2, 5>>

(***************************************************************************)
(* The camera (tutorials/utils/camera.py).  Angles are the degrees turned  *)
(* since construction, position is the net number of steps taken ahead and *)
(* to the right since construction.                                        *)
(***************************************************************************)
QtCamera == [yaw |-> 0, pitch |-> 0, position |-> <<0, 0>>, zoom |-> 45]

\* offset accumulation; the limit pitchBound puts on the pitch is not known
lookAround(cam, xoffset, yoffset, pitchBound) ==
    [cam EXCEPT !.yaw = @ + xoffset, !.pitch = @ + yoffset]

move(cam, direction) ==
    LET p == cam.position
    IN  [cam EXCEPT !.position =
            CASE direction = "forward"  -> <<p[1] + 1, p[2]>>
              [] direction = "backward" -> <<p[1] - 1, p[2]>>
              [] direction = "left"     -> <<p[1], p[2] - 1>>
              [] direction = "right"    -> <<p[1], p[2] + 1>>
              [] OTHER                  -> p]

\* the view matrix is the one of the camera's pose
getViewMatrix(cam) ==
    <<[op |-> "lookAt", position |-> cam.position,
       yaw |-> cam.yaw, pitch |-> cam.pitch]>>

(***************************************************************************)
(* QMatrix4x4: a matrix is the list of the transforms applied to the       *)
(* identity, in the order of the calls.                                    *)
(***************************************************************************)
QMatrix4x4 == << >>
perspective(m, fov, w, h, near, far) ==
    Append(m, [op |-> "perspective", fov |-> fov, aspect |-> <<w, h>>,
               near |-> near, far |-> far])
translate(m, v) == Append(m, [op |-> "translate", v |-> v])
rotate(m, angle, axis) ==
    Append(m, [op |-> "rotate", angle |-> angle, axis |-> axis])

\* a uniform the program has not been given a value for
Unset == <<[op |-> "unset"]>>

(***************************************************************************)
(* The GL side of a widget is the record                                   *)
(*   [vbo, uniforms, frame, initCalls, initLog]                            *)
(* where frame lists, in order, the uniform settings and draw calls issued *)
(* since the latest glClear, and initLog lists, in order, the calls of     *)
(* CubeGL.initializeGL on the program, the buffer, the vertex array and    *)
(* the textures.  initializeGL and paintGL map the record to the record    *)
(* after the call.                                                         *)
(***************************************************************************)
NewGL == [vbo       |-> << >>,
          uniforms  |-> [projection |-> Unset, view |-> Unset, model |-> Unset,
                         myTexture1 |-> Unset, myTexture2 |-> Unset],
          frame     |-> << >>,
          initCalls |-> 0,
          initLog   |-> << >>]

\* QOpenGLBuffer.allocate(data, count): the buffer holds count bytes of data
allocate(g, data, count) ==
    [g EXCEPT !.vbo = SubSeq(data, 1, count \div floatSize)]

\* the size in bytes of the vertex buffer
vboSize(g) == floatSize * Len(g.vbo)

glClear(g) == [g EXCEPT !.frame = << >>]

glDrawArrays(g, first, count) ==
    [g EXCEPT !.frame = Append(@, [call |-> "glDrawArrays", first |-> first,
                                   count |-> count])]

glDrawElements(g, count, idx) ==
    [g EXCEPT !.frame = Append(@, [call |-> "glDrawElements", count |-> count,
                                   indices |-> idx])]

setUniformValue(g, name, value) ==
    [g EXCEPT !.uniforms[name] = value,
              !.frame = Append(@, [call |-> "setUniformValue", name |-> name,
                                   value |-> value])]

\* ---------------------------------------------------------------- CubeGL
texUnit1 == 0
texUnit2 == 1

\* the call named s made by initializeGL
called(g, s) == [g EXCEPT !.initLog = Append(@, s)]

\* program.setUniformValue(name, value) as a call of initializeGL
CubeGL_setUniformValue(g, name, value) ==
    called(setUniformValue(g, name, value), <<"setUniformValue", name>>)

\* the cube shader: created, given its shaders, linked, bound
CubeGL_program(g) ==
    LET g1 == called(g,  <<"program", "QOpenGLShaderProgram">>)
        g2 == called(g1, <<"program", "addShader", "vshader">>)
        g3 == called(g2, <<"program", "addShader", "fshader">>)
        g4 == called(g3, <<"program", "bindAttributeLocation", "aPos">>)
        g5 == called(g4, <<"program", "bindAttributeLocation", "aTexCoord">>)
        g6 == called(g5, <<"program", "link">>)
    IN  called(g6, <<"program", "bind">>)

\* the projection, the view and the sampler units
CubeGL_uniforms(g) ==
    LET projectionMatrix == perspective(QMatrix4x4, camera.zoom,
                                size.width, size.height, 2, 1000)
        g1 == CubeGL_setUniformValue(g, "projection", projectionMatrix)
        viewMatrix == getViewMatrix(camera)
        g2 == CubeGL_setUniformValue(g1, "view", viewMatrix)
        g3 == CubeGL_setUniformValue(g2, "myTexture1", texUnit1)
    IN  CubeGL_setUniformValue(g3, "myTexture2", texUnit2)

\* the vertex buffer: created, bound, filled
CubeGL_vbo(g) ==
    LET g1 == called(g,  <<"vbo", "create">>)
        g2 == called(g1, <<"vbo", "bind">>)
        g3 == allocate(g2, cubeVertices, floatSize * Len(cubeVertices))
    IN  called(g3, <<"vbo", "allocate">>)

\* the vertex array object: created, bound by the Binder, both attributes
CubeGL_vao(g) ==
    LET g1 == called(g,  <<"vao", "create">>)
        g2 == called(g1, <<"vao", "bind">>)
        g3 == called(g2, <<"glEnableVertexAttribArray", 0>>)
        g4 == called(g3, <<"glVertexAttribPointer", 0>>)
        g5 == called(g4, <<"glEnableVertexAttribArray", 1>>)
    IN  called(g5, <<"glVertexAttribPointer", 1>>)

\* one texture: constructed, created, bound to its unit, given its image
CubeGL_texture(g, t) ==
    LET g1 == called(g,  <<t, "QOpenGLTexture">>)
        g2 == called(g1, <<t, "create">>)
        g3 == called(g2, <<t, "bind">>)
        g4 == called(g3, <<t, "setData">>)
        g5 == called(g4, <<t, "setMinMagFilters">>)
        g6 == called(g5, <<t, "setWrapMode", "DirectionS">>)
    IN  called(g6, <<t, "setWrapMode", "DirectionT">>)

\* vbo.release(), then the Binder dropped, which releases the vao
CubeGL_release(g) ==
    called(called(g, <<"vbo", "release">>), <<"vao", "release">>)

\* faulty variant: the vertex buffer released before the vertex array is
\* set up
CubeGL_initializeGL_releasesFirst(g) ==
    LET g1 == CubeGL_vbo(CubeGL_uniforms(CubeGL_program(g)))
        g2 == CubeGL_vao(CubeGL_release(g1))
        g3 == CubeGL_texture(CubeGL_texture(g2, "texture1"), "texture2")
    IN  [g3 EXCEPT !.initCalls = @ + 1]

CubeGL_initializeGL(g) ==
    LET g1 == CubeGL_vbo(CubeGL_uniforms(CubeGL_program(g)))
        g2 == CubeGL_vao(g1)
        g3 == CubeGL_texture(CubeGL_texture(g2, "texture1"), "texture2")
        g4 == CubeGL_release(g3)
    IN  [g4 EXCEPT !.initCalls = @ + 1]

\* faulty variant: the draw call issued before the cube's model is set
CubeGL_drawCube_drawFirst(g, i, pos) ==
    LET cubeModel == rotate(translate(QMatrix4x4, pos), 30 * i, CubeGL_rotvec)
        g1 == glDrawArrays(g, 0, Len(cubeVertices))
    IN  setUniformValue(g1, "model", cubeModel)

\* one iteration of the loop over enumerate(self.cubeCoords)
CubeGL_drawCube(g, i, pos) ==
    LET cubeModel == rotate(translate(QMatrix4x4, pos), 30 * i, CubeGL_rotvec)
        g1 == setUniformValue(g, "model", cubeModel)
    IN  glDrawArrays(g1, 0, Len(cubeVertices))

RECURSIVE CubeGL_loop(_, _)
CubeGL_loop(g, i) ==
    IF i >= Len(cubeCoords) THEN g
    ELSE CubeGL_loop(CubeGL_drawCube(g, i, cubeCoords[i + 1]), i + 1)

CubeGL_paintGL(g) ==
    CubeGL_loop(glClear(g), 0)

\* ----------------------------------------------------- the events widget
\* as CubeGL.initializeGL, the projection and view set in paintGL instead
EventsGL_initializeGL(g) ==
    LET g1 == allocate(g, cubeVertices, floatSize * Len(cubeVertices))
    IN  [g1 EXCEPT !.initCalls = @ + 1]

\* faulty variant: the cubes turned about CubeGL's fixed axis
EventsGL_drawCube_fixedAxis(g, i, pos) ==
    LET cubeModel == rotate(translate(QMatrix4x4, pos), 30 * i, CubeGL_rotvec)
        g1 == setUniformValue(g, "model", cubeModel)
    IN  glDrawArrays(g1, 0, 36)

EventsGL_drawCube(g, i, pos) ==
    LET cubeModel == rotate(translate(QMatrix4x4, pos), 30 * i, rotateVector)
        g1 == setUniformValue(g, "model", cubeModel)
    IN  glDrawArrays(g1, 0, 36)

RECURSIVE EventsGL_loop(_, _)
EventsGL_loop(g, i) ==
    IF i >= Len(cubeCoords) THEN g
    ELSE EventsGL_loop(EventsGL_drawCube(g, i, cubeCoords[i + 1]), i + 1)

\* faulty variant: the view left at the identity, whatever the camera
EventsGL_setView_identity(g) == setUniformValue(g, "view", QMatrix4x4)

EventsGL_setView(g) == setUniformValue(g, "view", getViewMatrix(camera))

\* faulty variant: vbo.destroy() where paintGL calls vbo.release()
EventsGL_paintGL_destroysVbo(g) ==
    LET g0 == glClear(g)
        projectionMatrix == perspective(QMatrix4x4, camera.zoom,
                                size.width, size.height, 2, 1000)
        g1 == setUniformValue(g0, "projection", projectionMatrix)
        g2 == EventsGL_setView(g1)
    IN  [EventsGL_loop(g2, 0) EXCEPT !.vbo = << >>]

EventsGL_paintGL(g) ==
    LET g0 == glClear(g)
        projectionMatrix == perspective(QMatrix4x4, camera.zoom,
                                size.width, size.height, 2, 1000)
        g1 == setUniformValue(g0, "projection", projectionMatrix)
        g2 == EventsGL_setView(g1)
    IN  EventsGL_loop(g2, 0)

\* ----------------------------------------------------------- RectangleGL
\* "exactly the same as triangle widget": the buffer holds vertexData
RectangleGL_initializeGL(g) ==
    LET g1 == allocate(g, vertexData, floatSize * Len(vertexData))
    IN  [g1 EXCEPT !.initCalls = @ + 1]

\* faulty variant: the size of vertexData passed as the element count
RectangleGL_paintGL_vertexCount(g) ==
    glDrawElements(glClear(g), Len(vertexData), indices)

RectangleGL_paintGL(g) ==
    glDrawElements(glClear(g), Len(indices), indices)

(***************************************************************************)
(* Construction: app.py builds the widget and the window and shows it,     *)
(* which asks for the first paint.                                         *)
(***************************************************************************)
Apps == {"rectangle", "cube", "events"}
\* values the camera sliders, built alike, may hold when the window is built
InitCamValues == {0, 90}

Init ==
    /\ app \in Apps
    \* the sliders start inside the range setRange has just given them
    /\ camX \in (IF app = "events" THEN InitCamValues ELSE {0})
    /\ camY = camX
    /\ xSlider = 0 /\ ySlider = 0 /\ zSlider = 0
    /\ lastCamXVal = camX
    /\ lastCamYVal = camY
    /\ camera = QtCamera
    /\ rotateVector = CubeGL_rotvec
    /\ size = WidgetSize
    /\ sizeAtInit = WidgetSize
    /\ cubeVertices = IF app = "rectangle" THEN << >> ELSE CubeGL_cubeVertices
    /\ cubeCoords = IF app = "rectangle" THEN << >> ELSE CubeGL_cubeCoords
    /\ indices = IF app = "rectangle" THEN RectangleGL_indices ELSE << >>
    /\ vertexData = IF app = "rectangle" THEN RectangleGL_vertexData ELSE << >>
    /\ gl = NewGL
    /\ updatePending = TRUE
    /\ backlog = 0
    /\ initCamX = camX /\ initCamY = camY
    /\ sumX = 0 /\ sumY = 0
    /\ lastEvent = "show"
    /\ calls = << >>

(***************************************************************************)
(* The GL widget's slots (glevents.py; turnAround is in the tutorial).     *)
(***************************************************************************)
\* QWidget.update(): asks the event loop for a repaint
update == updatePending' = TRUE

\* faulty variant: the camera turned without asking for a repaint
turnAround_noUpdate(x, y) ==
    /\ camera' = lookAround(camera, x, y, TRUE)
    /\ UNCHANGED updatePending
    /\ calls' = <<[op |-> "turnAround", x |-> x, y |-> y]>>
    /\ sumX' = sumX + x
    /\ sumY' = sumY + y

turnAround(x, y) ==
    /\ camera' = lookAround(camera, x, y, TRUE)
    /\ update
    /\ calls' = <<[op |-> "turnAround", x |-> x, y |-> y]>>
    /\ sumX' = sumX + x
    /\ sumY' = sumY + y

moveCamera(direction) ==
    /\ camera' = move(camera, direction)
    /\ update
    /\ calls' = <<[op |-> "moveCamera", direction |-> direction]>>

GLrotateCubes(rx, ry, rz) ==
    /\ rotateVector' = <<10 * rx, 10 * ry, 10 * rz>>
    /\ update
    /\ calls' = <<[op |-> "rotateCubes", x |-> rx, y |-> ry, z |-> rz]>>

(***************************************************************************)
(* EventAppWindow's handlers.  float() of the integer offsets is exact.    *)
(***************************************************************************)
moveGLCamera(direction) ==
    /\ moveCamera(direction)
    /\ UNCHANGED <<window, rotateVector, sumX, sumY>>

\* faulty variant: the left button wired to the move to the right
moveCameraLeft_right == moveGLCamera("right")

moveCameraForward  == moveGLCamera("forward")
moveCameraBackward == moveGLCamera("backward")
moveCameraLeft     == moveGLCamera("left")
moveCameraRight    == moveGLCamera("right")

\* faulty variant: lastCamXVal left as it was
turnCameraX_keepsLast(newVal) ==
    LET offsetx == newVal - lastCamXVal
        valy    == camY' - lastCamYVal
    IN  /\ turnAround(offsetx, valy)
        /\ UNCHANGED <<lastCamXVal, lastCamYVal, rotateVector>>

\* the slider holds newVal already when its valueChanged handler runs
turnCameraX(newVal) ==
    LET offsetx == newVal - lastCamXVal
        valy    == camY' - lastCamYVal
    IN  /\ turnAround(offsetx, valy)
        /\ lastCamXVal' = newVal
        /\ UNCHANGED <<lastCamYVal, rotateVector>>

turnCameraY(newVal) ==
    LET offsety == newVal - lastCamYVal
        valx    == camX' - lastCamXVal
    IN  /\ turnAround(valx, offsety)
        /\ lastCamYVal' = newVal
        /\ UNCHANGED <<lastCamXVal, rotateVector>>

rotateCubes ==
    LET rx == xSlider'
        ry == ySlider'
        rz == zSlider'
    IN  /\ GLrotateCubes(rx, ry, rz)
        /\ UNCHANGED <<lastCamXVal, lastCamYVal, camera, sumX, sumY>>

(***************************************************************************)
(* The event loop: one action per signal delivered to the window, one for  *)
(* the paint event, one for the window system asking for a repaint.        *)
(***************************************************************************)
CanHandle == app = "events" /\ backlog < MaxBacklog

Reach(p) == Abs(p[1]) + Abs(p[2])
CanMove(direction) == Reach(move(camera, direction).position) <= MaxMove

handled(signal) ==
    /\ lastEvent' = signal
    /\ backlog' = backlog + 1
    /\ UNCHANGED <<app, size, geometry, gl, initCamX, initCamY, sizeAtInit>>

upBtnClicked ==
    /\ CanHandle /\ CanMove("forward")
    /\ moveCameraForward
    /\ handled("upBtn")

downBtnClicked ==
    /\ CanHandle /\ CanMove("backward")
    /\ moveCameraBackward
    /\ handled("downBtn")

leftBtnClicked ==
    /\ CanHandle /\ CanMove("left")
    /\ moveCameraLeft
    /\ handled("leftBtn")

rightBtnClicked ==
    /\ CanHandle /\ CanMove("right")
    /\ moveCameraRight
    /\ handled("rightBtn")

\* valueChanged is emitted when the bounded value differs from the old one
camXChanged ==
    \E v \in CamRequests :
        /\ CanHandle
        /\ Bound(v) # camX
        /\ camX' = Bound(v)
        /\ UNCHANGED <<camY, xSlider, ySlider, zSlider>>
        /\ turnCameraX(camX')
        /\ handled("camX")

camYChanged ==
    \E v \in CamRequests :
        /\ CanHandle
        /\ Bound(v) # camY
        /\ camY' = Bound(v)
        /\ UNCHANGED <<camX, xSlider, ySlider, zSlider>>
        /\ turnCameraY(camY')
        /\ handled("camY")

xSliderChanged ==
    \E v \in RotRequests :
        /\ CanHandle
        /\ Bound(v) # xSlider
        /\ xSlider' = Bound(v)
        /\ UNCHANGED <<camX, camY, ySlider, zSlider>>
        /\ rotateCubes
        /\ handled("xSlider")

ySliderChanged ==
    \E v \in RotRequests :
        /\ CanHandle
        /\ Bound(v) # ySlider
        /\ ySlider' = Bound(v)
        /\ UNCHANGED <<camX, camY, xSlider, zSlider>>
        /\ rotateCubes
        /\ handled("ySlider")

zSliderChanged ==
    \E v \in RotRequests :
        /\ CanHandle
        /\ Bound(v) # zSlider
        /\ zSlider' = Bound(v)
        /\ UNCHANGED <<camX, camY, xSlider, ySlider>>
        /\ rotateCubes
        /\ handled("zSlider")

initializeGL(g) ==
    CASE app = "cube"      -> CubeGL_initializeGL(g)
      [] app = "events"    -> EventsGL_initializeGL(g)
      [] app = "rectangle" -> RectangleGL_initializeGL(g)

paintGL(g) ==
    CASE app = "cube"      -> CubeGL_paintGL(g)
      [] app = "events"    -> EventsGL_paintGL(g)
      [] app = "rectangle" -> RectangleGL_paintGL(g)

\* faulty variant: initializeGL run again for every paint event
NeedsInitializeGL_always == TRUE

\* QOpenGLWidget: initializeGL runs once, before the first paintGL
NeedsInitializeGL == gl.initCalls = 0

paintEvent ==
    /\ updatePending
    /\ gl' = paintGL(IF NeedsInitializeGL THEN initializeGL(gl) ELSE gl)
    /\ updatePending' = FALSE
    /\ backlog' = 0
    /\ lastEvent' = "paintGL"
    /\ calls' = << >>
    /\ sizeAtInit' = IF NeedsInitializeGL THEN size ELSE sizeAtInit
    /\ UNCHANGED <<app, window, camera, rotateVector, size, geometry,
                   initCamX, initCamY, sumX, sumY>>

\* the window system uncovers or resizes the window: Qt asks for a repaint
expose ==
    /\ ~updatePending
    /\ update
    /\ lastEvent' = "expose"
    /\ calls' = << >>
    /\ UNCHANGED <<app, window, camera, rotateVector, size, geometry, gl,
                   backlog, initCamX, initCamY, sizeAtInit, sumX, sumY>>

\* the user drags the window to another size: Qt asks for a repaint
resizeEvent ==
    \E s \in WidgetSizes :
        /\ s # size
        /\ size' = s
        /\ update
        /\ lastEvent' = "resize"
        /\ calls' = << >>
        /\ UNCHANGED <<app, window, camera, rotateVector, geometry, gl,
                       backlog, initCamX, initCamY, sizeAtInit, sumX, sumY>>

Next ==
    \/ upBtnClicked
    \/ downBtnClicked
    \/ leftBtnClicked
    \/ rightBtnClicked
    \/ camXChanged
    \/ camYChanged
    \/ xSliderChanged
    \/ ySliderChanged
    \/ zSliderChanged
    \/ paintEvent
    \/ expose

Spec == Init /\ [][Next]_vars

\* The camera controls alone, with the event loop serving a pending
\* repaint: the rotation sliders, which leave the camera alone, stay put.
LiveNext ==
    \/ upBtnClicked
    \/ downBtnClicked
    \/ leftBtnClicked
    \/ rightBtnClicked
    \/ camXChanged
    \/ camYChanged
    \/ paintEvent
    \/ expose

LiveSpec == Init /\ [][LiveNext]_vars /\ WF_vars(paintEvent)

\* The camera controls and a window the user resizes.
ResizeNext ==
    \/ upBtnClicked
    \/ downBtnClicked
    \/ leftBtnClicked
    \/ rightBtnClicked
    \/ camXChanged
    \/ camYChanged
    \/ paintEvent
    \/ expose
    \/ resizeEvent

ResizeSpec == Init /\ [][ResizeNext]_vars

(***************************************************************************)
(* Reading a frame.                                                        *)
(***************************************************************************)
Frame == gl.frame
IsDraw(k) == Frame[k].call = "glDrawArrays"
DrawIndexes == {k \in 1..Len(Frame) : IsDraw(k)}
Painted == Frame # << >>

\* the value uniform name has when the GL call at position k is issued: the
\* latest one set before it in the frame, else the one the program kept
SettingsBefore(k, name) ==
    {j \in 1..(k - 1) : /\ Frame[j].call = "setUniformValue"
                        /\ Frame[j].name = name}
UniformAt(k, name) ==
    LET before == SettingsBefore(k, name)
    IN  IF before = {} THEN gl.uniforms[name]
        ELSE Frame[CHOOSE j \in before : \A i \in before : i <= j].value

\* the same, for the GL record g of another run
UniformIn(g, k, name) ==
    LET before == {j \in 1..(k - 1) : /\ g.frame[j].call = "setUniformValue"
                                      /\ g.frame[j].name = name}
    IN  IF before = {} THEN g.uniforms[name]
        ELSE g.frame[CHOOSE j \in before : \A i \in before : i <= j].value
DrawIndexesIn(g) ==
    {k \in 1..Len(g.frame) : g.frame[k].call = "glDrawArrays"}
\* the position in g's frame of its n-th draw call
RECURSIVE NthDrawIn(_, _, _)
NthDrawIn(g, n, from) ==
    IF g.frame[from].call = "glDrawArrays"
    THEN IF n = 1 THEN from ELSE NthDrawIn(g, n - 1, from + 1)
    ELSE NthDrawIn(g, n, from + 1)

\* the number of draw calls among the first k calls of the frame
DrawsUpTo(k) == Cardinality({j \in DrawIndexes : j <= k})

SliderSpan == SliderMax - SliderMin

(***************************************************************************)
(* C1: the x offsets passed to turnAround sum to the current camX value    *)
(* minus the one at construction, the y offsets to the current camY value  *)
(* minus the one at construction; a slider moved away and back has         *)
(* delivered a net offset of zero.                                         *)
(***************************************************************************)
C1_OffsetsSumToSliderTravel ==
    /\ sumX = camX - initCamX
    /\ sumY = camY - initCamY
    /\ (camX = initCamX => sumX = 0)
    /\ (camY = initCamY => sumY = 0)

\* camX has been moved away and is back where it started
C1_Witness ==
    /\ lastEvent = "camX"
    /\ camX = initCamX
    /\ calls[1].x # 0
    /\ sumX = 0

(***************************************************************************)
(* C2: the camera sliders stay inside [-180, 180], so every offset passed  *)
(* to turnAround and the running total on each axis is at most 360 in      *)
(* magnitude.                                                              *)
(***************************************************************************)
C2_AnglesInRange ==
    /\ camX >= SliderMin /\ camX <= SliderMax
    /\ camY >= SliderMin /\ camY <= SliderMax
    /\ \A i \in 1..Len(calls) :
          calls[i].op = "turnAround" =>
              Abs(calls[i].x) <= SliderSpan /\ Abs(calls[i].y) <= SliderSpan
    /\ Abs(sumX) <= SliderSpan
    /\ Abs(sumY) <= SliderSpan

\* a slider dragged past one end after standing at the other end
C2_Witness ==
    /\ lastEvent = "camY"
    /\ camY = SliderMax
    /\ calls[1].y = SliderSpan

TurnDrawn ==
    /\ lastEvent = "paintGL"
    /\ \A k \in DrawIndexes :
          /\ SettingsBefore(k, "view") # {}
          /\ UniformAt(k, "view") = getViewMatrix(camera)

C4_TurnIsDrawn ==
    /\ [][lastEvent' \in {"camX", "camY"} =>
            /\ Len(calls') = 1
            /\ calls'[1].op = "turnAround"
            /\ camera' = lookAround(camera, calls'[1].x, calls'[1].y, TRUE)
            /\ updatePending']_vars
    /\ (lastEvent \in {"camX", "camY"}) ~> TurnDrawn

\* a frame drawn with the view of a camera that has been turned
C4_Witness ==
    /\ TurnDrawn
    /\ DrawIndexes # {}
    /\ camera.yaw # 0
    /\ camera.pitch # 0

(***************************************************************************)
(* C5: a click of upBtn, downBtn, leftBtn or rightBtn makes exactly one    *)
(* call, glWidget.moveCamera(d) with d = "forward", "backward", "left",    *)
(* "right" in that order, and changes neither lastCamXVal nor lastCamYVal  *)
(* nor a slider value.                                                     *)
(***************************************************************************)
ButtonDirection ==
    [upBtn |-> "forward", downBtn |-> "backward",
     leftBtn |-> "left", rightBtn |-> "right"]

C5_ButtonsMoveCamera ==
    [][lastEvent' \in DOMAIN ButtonDirection =>
          /\ calls' = <<[op |-> "moveCamera",
                         direction |-> ButtonDirection[lastEvent']]>>
          /\ UNCHANGED <<lastCamXVal, lastCamYVal>>
          /\ UNCHANGED <<camX, camY, xSlider, ySlider, zSlider>>]_vars

\* a button clicked after both camera sliders have been moved
C5_Witness ==
    /\ lastEvent = "leftBtn"
    /\ calls = <<[op |-> "moveCamera", direction |-> "left"]>>
    /\ lastCamXVal # initCamX
    /\ lastCamYVal # initCamY

(***************************************************************************)
(* C6, as stated: the camera state and the static vertex buffer are the    *)
(* only data that persists between events, so nothing else an event        *)
(* handler stores is there for a later handler or frame: the window's      *)
(* lastCamXVal and lastCamYVal and the widget's rotateVector keep the      *)
(* values construction gave them.                                          *)
(***************************************************************************)
C6_OnlyCameraAndBufferPersist ==
    /\ lastCamXVal = initCamX
    /\ lastCamYVal = initCamY
    /\ rotateVector = CubeGL_rotvec

(***************************************************************************)
(* C6, amended: lastCamXVal, lastCamYVal and rotateVector persist between  *)
(* events too.  turnCameraX (turnCameraY) passes the new slider value      *)
(* minus the lastCamXVal (lastCamYVal) the earlier events left, and stores *)
(* the new value there; rotateCubes stores the three rotation slider       *)
(* values in rotateVector, and every paintGL of the events widget turns    *)
(* each cube about the rotateVector the earlier events left.               *)
(***************************************************************************)
RotationsOf(fr) ==
    {fr[k].value[2] : k \in {j \in 1..Len(fr) :
                                /\ fr[j].call = "setUniformValue"
                                /\ fr[j].name = "model"}}

C6_StoredValuesPersist ==
    [][/\ lastEvent' = "camX" =>
            /\ calls'[1].x = camX' - lastCamXVal
            /\ lastCamXVal' = camX'
       /\ lastEvent' = "camY" =>
            /\ calls'[1].y = camY' - lastCamYVal
            /\ lastCamYVal' = camY'
       /\ lastEvent' \in {"xSlider", "ySlider", "zSlider"} =>
            rotateVector' = <<10 * xSlider', 10 * ySlider', 10 * zSlider'>>
       /\ (lastEvent' = "paintGL" /\ app = "events") =>
            /\ RotationsOf(gl'.frame) # {}
            /\ \A r \in RotationsOf(gl'.frame) : r.axis = rotateVector
      ]_vars

\* a frame drawn from a lastCamXVal and a rotateVector that events stored
C6_Witness ==
    /\ app = "events"
    /\ lastEvent = "paintGL"
    /\ lastCamXVal # initCamX
    /\ rotateVector # CubeGL_rotvec
    /\ \A r \in RotationsOf(Frame) : r.axis = rotateVector

(***************************************************************************)
(* C7: after construction no paintGL and no UI event handler changes       *)
(* cubeVertices, cubeCoords, vertexData or indices, and once initializeGL  *)
(* has filled the vertex buffer every frame draws from the same contents.  *)
(***************************************************************************)
C7_GeometryIsFixed ==
    [][/\ UNCHANGED <<cubeVertices, cubeCoords, vertexData, indices>>
       /\ gl.initCalls >= 1 => gl'.vbo = gl.vbo
       /\ gl'.initCalls >= 1 =>
            gl'.vbo = IF app = "rectangle" THEN vertexData ELSE cubeVertices
      ]_vars

\* a frame drawn after the camera was moved and the cubes were turned
C7_Witness ==
    /\ app = "events"
    /\ lastEvent = "paintGL"
    /\ camera.position # QtCamera.position
    /\ camera.yaw # 0
    /\ rotateVector # CubeGL_rotvec
    /\ gl.vbo = CubeGL_cubeVertices
    /\ cubeCoords = CubeGL_cubeCoords

(***************************************************************************)
(* C8: a cube is 6 * 2 * 3 = 36 vertices and every glDrawArrays call of a  *)
(* paintGL, CubeGL's and the events widget's, draws those 36: the count it *)
(* passes is the number of vertices in the vertex buffer                   *)
(* (cubeVertices.size / 5) and the draw reads no byte past the buffer.     *)
(***************************************************************************)
CubeVertexCount == 6 * 2 * 3
\* the bytes from one vertex to the next, as given to glVertexAttribPointer
Stride == VertexFloats * floatSize

C8_DrawsThe36Vertices ==
    \A k \in DrawIndexes :
        /\ Frame[k].count = CubeVertexCount
        /\ Frame[k].count = Len(cubeVertices) \div VertexFloats
        /\ (Frame[k].first + Frame[k].count) * Stride <= vboSize(gl)

(***************************************************************************)
(* C9: there are 10 cubes; a paintGL issues one glDrawArrays call per      *)
(* entry of cubeCoords, in list order, and the call for entry i (from 0)   *)
(* comes right after the 'model' uniform is set to translate(cubeCoords[i])*)
(* then rotate(30 * i degrees), so no draw uses another cube's model.      *)
(***************************************************************************)
C9_OneDrawPerCube ==
    (app \in {"cube", "events"} /\ Painted) =>
        /\ Len(cubeCoords) = 10
        /\ Cardinality(DrawIndexes) = Len(cubeCoords)
        /\ \A k \in DrawIndexes :
              LET i == DrawsUpTo(k) - 1
              IN  /\ k > 1
                  /\ Frame[k - 1].call = "setUniformValue"
                  /\ Frame[k - 1].name = "model"
                  /\ Len(Frame[k - 1].value) = 2
                  /\ Frame[k - 1].value[1] =
                         [op |-> "translate", v |-> cubeCoords[i + 1]]
                  /\ Frame[k - 1].value[2].op = "rotate"
                  /\ Frame[k - 1].value[2].angle = 30 * i
                  /\ UniformAt(k, "model") = Frame[k - 1].value

\* a frame of ten cubes
C9_Witness ==
    /\ app = "cube"
    /\ lastEvent = "paintGL"
    /\ Cardinality(DrawIndexes) = 10
    /\ UniformAt(Len(Frame), "model") =
           rotate(translate(QMatrix4x4, cubeCoords[10]), 270, CubeGL_rotvec)

(***************************************************************************)
(* C10: RectangleGL.paintGL passes glDrawElements the size of indices (6)  *)
(* as the element count, every index names a vertex of vertexData          *)
(* (index < 4), and the triangles (0,1,3) and (1,2,3) use all four corners *)
(* and share exactly the edge 1-3.                                         *)
(***************************************************************************)
Elements(k) == Frame[k].indices
Corners(k, from, to) == {Elements(k)[j] : j \in from..to}

C10_RectangleElements ==
    (app = "rectangle" /\ Painted) =>
        /\ Len(Frame) = 1
        /\ Frame[1].call = "glDrawElements"
        /\ Frame[1].count = Len(indices)
        /\ Frame[1].count = 6
        /\ Len(Elements(1)) = Frame[1].count
        /\ Len(vertexData) \div 3 = 4
        /\ \A j \in 1..Frame[1].count :
              Elements(1)[j] >= 0 /\ Elements(1)[j] < Len(vertexData) \div 3
        /\ Corners(1, 1, 3) = {0, 1, 3}
        /\ Corners(1, 4, 6) = {1, 2, 3}
        /\ Corners(1, 1, 3) \cup Corners(1, 4, 6) = 0..3
        /\ Corners(1, 1, 3) \cap Corners(1, 4, 6) = {1, 3}

\* the rectangle has been drawn
C10_Witness ==
    /\ app = "rectangle"
    /\ lastEvent = "paintGL"
    /\ Len(Frame) = 1
    /\ Frame[1].call = "glDrawElements"
    /\ Frame[1].count = 6

(***************************************************************************)
(* C11: the events widget's paintGL sets 'projection' and 'view' with the  *)
(* code CubeGL runs in initializeGL: with the camera as constructed and    *)
(* the widget at the size it had at initializeGL, each draw call of the    *)
(* events widget sees the 'projection'                                     *)
(* (perspective(camera.zoom, width / height, 0.2, 100.0)) and the 'view'   *)
(* (camera.getViewMatrix()) that the same draw call of CubeGL sees.        *)
(***************************************************************************)
\* the first frame of a CubeGL built and shown in the present state
CubeGL_firstFrame == CubeGL_paintGL(CubeGL_initializeGL(NewGL))

C11_SameProjectionAndView ==
    (/\ app = "events"
     /\ lastEvent = "paintGL"
     /\ camera = QtCamera
     /\ size = sizeAtInit) =>
        /\ Cardinality(DrawIndexes) = Cardinality(DrawIndexesIn(CubeGL_firstFrame))
        /\ \A n \in 1..Cardinality(DrawIndexes) :
              LET ke == NthDrawIn(gl, n, 1)
                  kc == NthDrawIn(CubeGL_firstFrame, n, 1)
              IN  /\ UniformAt(ke, "projection") =
                         UniformIn(CubeGL_firstFrame, kc, "projection")
                  /\ UniformAt(ke, "view") =
                         UniformIn(CubeGL_firstFrame, kc, "view")
                  /\ UniformAt(ke, "projection") =
                         perspective(QMatrix4x4, camera.zoom,
                                     size.width, size.height, 2, 1000)
                  /\ UniformAt(ke, "view") = getViewMatrix(camera)

\* the events widget has painted its cubes with the camera as constructed
\* and the window at the size it had at initializeGL
C11_Witness ==
    /\ app = "events"
    /\ lastEvent = "paintGL"
    /\ camera = QtCamera
    /\ size = sizeAtInit
    /\ gl.initCalls = 1
    /\ Cardinality(DrawIndexes) = Len(cubeCoords)
    /\ UniformAt(NthDrawIn(gl, Len(cubeCoords), 1), "view") =
           getViewMatrix(QtCamera)

(***************************************************************************)
(* C12: CubeGL.initializeGL is one linear sequence in which every resource *)
(* is created before its first use: the program is linked and bound before *)
(* any setUniformValue; the vertex buffer is created and bound before      *)
(* allocate; the vertex array object is created and bound, the vertex      *)
(* buffer still bound, before both glVertexAttribPointer calls; each       *)
(* texture is created before it is bound and given data; the vertex buffer *)
(* is released only after both attribute pointers are set.  No step is     *)
(* retried or skipped.                                                     *)
(***************************************************************************)
\* the positions in the log of the call s
At(s) == {k \in 1..Len(gl.initLog) : gl.initLog[k] = s}
\* call s was made exactly once
Once(s) == Cardinality(At(s)) = 1
\* every call s was made before every call t
Before(s, t) == \A i \in At(s), j \in At(t) : i < j

Textures == {"texture1", "texture2"}
UniformsSet == {"projection", "view", "myTexture1", "myTexture2"}
InitSteps ==
    {<<"program", "QOpenGLShaderProgram">>,
     <<"program", "addShader", "vshader">>,
     <<"program", "addShader", "fshader">>,
     <<"program", "bindAttributeLocation", "aPos">>,
     <<"program", "bindAttributeLocation", "aTexCoord">>,
     <<"program", "link">>, <<"program", "bind">>,
     <<"vbo", "create">>, <<"vbo", "bind">>, <<"vbo", "allocate">>,
     <<"vbo", "release">>,
     <<"vao", "create">>, <<"vao", "bind">>, <<"vao", "release">>}
    \cup {<<"setUniformValue", u>> : u \in UniformsSet}
    \cup {<<c, a>> : c \in {"glEnableVertexAttribArray",
                            "glVertexAttribPointer"}, a \in {0, 1}}
    \cup {<<t, c>> : t \in Textures,
                     c \in {"QOpenGLTexture", "create", "bind", "setData",
                            "setMinMagFilters"}}
    \cup {<<t, "setWrapMode", d>> : t \in Textures,
                                    d \in {"DirectionS", "DirectionT"}}

C12_CreatedBeforeUse ==
    (app = "cube" /\ gl.initCalls >= 1) =>
        \* no step retried or skipped
        /\ \A s \in InitSteps : Once(s)
        /\ Len(gl.initLog) = Cardinality(InitSteps)
        \* the program
        /\ Before(<<"program", "QOpenGLShaderProgram">>, <<"program", "link">>)
        /\ Before(<<"program", "link">>, <<"program", "bind">>)
        /\ \A u \in UniformsSet :
              Before(<<"program", "bind">>, <<"setUniformValue", u>>)
        \* the vertex buffer
        /\ Before(<<"vbo", "create">>, <<"vbo", "bind">>)
        /\ Before(<<"vbo", "bind">>, <<"vbo", "allocate">>)
        \* the vertex array object
        /\ Before(<<"vao", "create">>, <<"vao", "bind">>)
        /\ Before(<<"vbo", "bind">>, <<"vao", "bind">>)
        /\ \A a \in {0, 1} :
              /\ Before(<<"vao", "bind">>, <<"glVertexAttribPointer", a>>)
              /\ Before(<<"glVertexAttribPointer", a>>, <<"vbo", "release">>)
              /\ Before(<<"glVertexAttribPointer", a>>, <<"vao", "release">>)
        \* the textures
        /\ \A t \in Textures :
              /\ Before(<<t, "QOpenGLTexture">>, <<t, "create">>)
              /\ Before(<<t, "create">>, <<t, "bind">>)
              /\ Before(<<t, "bind">>, <<t, "setData">>)

\* the cube widget has run initializeGL and painted again since
C12_Witness ==
    /\ app = "cube"
    /\ gl.initCalls = 1
    /\ lastEvent = "paintGL"
    /\ gl.initLog[1] = <<"program", "QOpenGLShaderProgram">>
    /\ gl.initLog[Len(gl.initLog)] = <<"vao", "release">>
    /\ gl.uniforms.myTexture2 = texUnit2
    /\ vboSize(gl) = floatSize * Len(cubeVertices)

====
